---- MODULE Spec2Model ----
(***************************************************************************)
(* Model of data_processing_functions.py: the generic operations filter    *)
(* and aggregate over a list of city dicts, the CSV loader _load_cities    *)
(* and the demo driver main with its four queries.                         *)
(*                                                                         *)
(* Python values are tagged records: a str is [t |-> "str", s |-> chars]   *)
(* with chars a sequence of one-character strings, None is [t |-> "none"], *)
(* an int is [t |-> "int", n |-> n].  A dict is a function whose domain is *)
(* its set of keys (keys are character sequences).  A float is either NaN  *)
(* or a rational n/d in lowest terms.  A call that may raise returns       *)
(* [ok |-> TRUE, v |-> value] or [ok |-> FALSE, exc |-> exception].        *)
(***************************************************************************)
EXTENDS Integers, Sequences, FiniteSets, TLC

VARIABLES
    fs,            \* the files that exist on the filesystem (normalised paths)
    csvHeader,     \* header row of Cities.csv: raw column names
    csvRows,       \* data rows of Cities.csv: each a sequence of raw cell texts
    pc,            \* position of main()
    cities,        \* main: cities
    opened,        \* _load_cities: file_path (<<>> while None)
    out,           \* lines printed so far
    avg_temp,      \* main: avg_temp
    cities_in_germany,      \* main: cities_in_germany
    spain_above_12,         \* main: spain_above_12
    unique_country_count,   \* main: unique_country_count (-1 while unset)
    dict_list,     \* the Dataset handed to filter / aggregate by a caller
    dataset0,      \* the Dataset as it was handed over (history variable)
    vals,          \* aggregate: contents of its list vals after the last call
    call,          \* the last call made: operation and arguments
    result,        \* what the last call returned or raised
    firstCall      \* the first call made and its outcome (history variable)

vars == <<fs, csvHeader, csvRows, pc, cities, opened, out, avg_temp,
          cities_in_germany, spain_above_12, unique_country_count,
          dict_list, dataset0, vals, call, result, firstCall>>

demoVars == <<fs, csvHeader, csvRows, pc, cities, opened, out, avg_temp,
              cities_in_germany, spain_above_12, unique_country_count>>

opsVars == <<dict_list, dataset0, vals, call, result, firstCall>>

-----------------------------------------------------------------------------
(* Bounds of the model *)

\* rows of a Dataset, and of Cities.csv in the working directory
MaxRows == 2
\* rows of Cities.csv when a copy exists under /content or /mnt/data
MaxRowsElsewhere == 1

-----------------------------------------------------------------------------
(* Python values *)

PyNone == [t |-> "none"]
PyStr(s) == [t |-> "str", s |-> s]
PyInt(n) == [t |-> "int", n |-> n]

Ok(v) == [ok |-> TRUE, v |-> v]
Raise(type, arg) == [ok |-> FALSE, exc |-> [type |-> type, arg |-> arg]]

Upper == <<"A","B","C","D","E","F","G","H","I","J","K","L","M",
           "N","O","P","Q","R","S","T","U","V","W","X","Y","Z">>
Lower == <<"a","b","c","d","e","f","g","h","i","j","k","l","m",
           "n","o","p","q","r","s","t","u","v","w","x","y","z">>
Digits == <<"0","1","2","3","4","5","6","7","8","9">>
Whitespace == {" "}

LowerChar(c) ==
    LET at == {i \in 1..Len(Upper) : Upper[i] = c}
    IN  IF at = {} THEN c ELSE Lower[CHOOSE i \in at : TRUE]

RECURSIVE lower(_)
\* str.lower()
lower(s) == IF s = <<>> THEN <<>> ELSE <<LowerChar(Head(s))>> \o lower(Tail(s))

\* str.strip(): drop leading and trailing whitespace
strip(s) ==
    LET keep == {i \in 1..Len(s) : s[i] \notin Whitespace}
    IN  IF keep = {} THEN <<>>
        ELSE LET lo == CHOOSE i \in keep : \A j \in keep : i <= j
                 hi == CHOOSE i \in keep : \A j \in keep : j <= i
             IN  SubSeq(s, lo, hi)

DigitValue(c) == (CHOOSE i \in 1..Len(Digits) : Digits[i] = c) - 1
IsDigit(c) == \E i \in 1..Len(Digits) : Digits[i] = c

RECURSIVE NatText(_)
NatText(n) == IF n < 10 THEN <<Digits[n + 1]>>
              ELSE NatText(n \div 10) \o <<Digits[(n % 10) + 1]>>

\* str(x)
str(x) ==
    CASE x.t = "str"  -> x.s
      [] x.t = "none" -> <<"N","o","n","e">>
      [] x.t = "int"  -> IF x.n < 0 THEN <<"-">> \o NatText(-x.n) ELSE NatText(x.n)

-----------------------------------------------------------------------------
(* Floats *)

NaN == [k |-> "nan", n |-> 0, d |-> 1]

Abs(n) == IF n < 0 THEN -n ELSE n
Max(a, b) == IF a >= b THEN a ELSE b

RECURSIVE GCD(_,_)
GCD(a, b) == IF b = 0 THEN a ELSE GCD(b, a % b)

\* the float n/d, in lowest terms (d > 0)
Fin(n, d) ==
    LET g == GCD(Abs(n), d)
    IN  [k |-> "fin", n |-> n \div g, d |-> d \div g]

IsNaN(f) == f.k = "nan"

FAdd(a, b) ==
    IF IsNaN(a) \/ IsNaN(b) THEN NaN
    ELSE Fin(a.n * b.d + b.n * a.d, a.d * b.d)

\* a / b with b a positive count
FDiv(a, b) ==
    IF IsNaN(a) \/ IsNaN(b) THEN NaN
    ELSE Fin(a.n * b.d, a.d * b.n)

\* a > b; every comparison with NaN is False
FGreater(a, b) ==
    IF IsNaN(a) \/ IsNaN(b) THEN FALSE
    ELSE a.n * b.d > b.n * a.d

RECURSIVE DigitsValue(_,_)
DigitsValue(s, acc) ==
    IF s = <<>> THEN acc
    ELSE DigitsValue(Tail(s), acc * 10 + DigitValue(Head(s)))

\* float(text): surrounding whitespace is ignored, then an optional sign and
\* decimal digits; any other text raises ValueError.  (Fractions, exponents,
\* "inf" and "nan" spellings do not occur in the texts of this model.)
ParseFloat(s) ==
    LET b == strip(s)
        signed == b # <<>> /\ Head(b) \in {"+", "-"}
        body == IF signed THEN Tail(b) ELSE b
    IN  IF body # <<>> /\ \A i \in 1..Len(body) : IsDigit(body[i])
        THEN Ok(Fin((IF signed /\ Head(b) = "-" THEN -1 ELSE 1) * DigitsValue(body, 0), 1))
        ELSE Raise("ValueError", s)

\* float(x)
float(x) ==
    CASE x.t = "str"  -> ParseFloat(x.s)
      [] x.t = "int"  -> Ok(Fin(x.n, 1))
      [] x.t = "none" -> Raise("TypeError", <<>>)

\* _to_float(x): float(x), and NaN when the conversion raises
to_float(x) ==
    LET r == float(x) IN IF r.ok THEN r.v ELSE NaN

-----------------------------------------------------------------------------
(* Field names and the texts the demo compares against *)

KCountry == <<"c","o","u","n","t","r","y">>
KTemperature == <<"t","e","m","p","e","r","a","t","u","r","e">>
TGermany == <<"g","e","r","m","a","n","y">>
TSpain == <<"s","p","a","i","n">>

\* d.get(key, default)
Get(d, key, default) == IF key \in DOMAIN d THEN d[key] ELSE default

-----------------------------------------------------------------------------
(* Caller-supplied functions.  A condition or an aggregation function is    *)
(* given by a descriptor; Call and Apply evaluate it as Python would.       *)

\* the Germany condition without .lower()
GermanyCondCaseSensitive(d) ==
    strip(str(Get(d, KCountry, PyStr(<<>>)))) = TGermany

\* the Spain condition with >= 12
SpainCondAtLeast12(d) ==
    /\ lower(strip(str(Get(d, KCountry, PyStr(<<>>))))) = TSpain
    /\ ~IsNaN(to_float(Get(d, KTemperature, PyNone)))
    /\ ~FGreater(Fin(12, 1), to_float(Get(d, KTemperature, PyNone)))

\* lambda d: str(d.get("country","")).strip().lower() == "germany"
GermanyCond(d) ==
    lower(strip(str(Get(d, KCountry, PyStr(<<>>))))) = TGermany

\* lambda d: str(d.get("country","")).strip().lower() == "spain"
\*           and (_to_float(d.get("temperature")) > 12)
SpainCond(d) ==
    /\ lower(strip(str(Get(d, KCountry, PyStr(<<>>))))) = TSpain
    /\ FGreater(to_float(Get(d, KTemperature, PyNone)), Fin(12, 1))

\* condition(d)
Call(condition, d) ==
    CASE condition.kind = "const"    -> Ok(condition.b)
      [] condition.kind = "get_eq"   -> Ok(Get(d, condition.key, PyNone) = condition.val)
      [] condition.kind = "index_eq" ->
            IF condition.key \in DOMAIN d
            THEN Ok(d[condition.key] = condition.val)
            ELSE Raise("KeyError", condition.key)
      [] condition.kind = "germany"  -> Ok(GermanyCond(d))
      [] condition.kind = "spain"    -> Ok(SpainCond(d))

RECURSIVE FSum(_,_,_)
\* sum(_to_float(x) for x in xs), accumulated left to right from start
FSum(xs, i, acc) ==
    IF i > Len(xs) THEN acc ELSE FSum(xs, i + 1, FAdd(acc, to_float(xs[i])))

\* sum(0 if (isinstance(_to_float(x), float) and str(_to_float(x)) == 'nan') else 1 for x in xs)
CountNotNaN(xs) == Cardinality({i \in 1..Len(xs) : ~IsNaN(to_float(xs[i]))})

\* lambda xs: (sum(...) / max(1, sum(...))) if xs else float("nan")
AvgFold(xs) ==
    IF xs # <<>>
    THEN FDiv(FSum(xs, 1, Fin(0, 1)), Fin(Max(1, CountNotNaN(xs)), 1))
    ELSE NaN

\* lambda xs: len({str(x).strip().lower() for x in xs if str(x).strip()})
UniqueFold(xs) ==
    Cardinality({lower(strip(str(xs[i]))) :
                    i \in {j \in 1..Len(xs) : strip(str(xs[j])) # <<>>}})

\* aggregation_function(vals)
Apply(aggregation_function, xs) ==
    CASE aggregation_function = "collect" -> Ok(xs)
      [] aggregation_function = "count"   -> Ok(Len(xs))
      [] aggregation_function = "first"   ->
            IF xs # <<>> THEN Ok(xs[1]) ELSE Raise("IndexError", <<>>)
      [] aggregation_function = "avg"     -> Ok(AvgFold(xs))
      [] aggregation_function = "unique"  -> Ok(UniqueFold(xs))

-----------------------------------------------------------------------------
(* filter and aggregate *)

RECURSIVE filterFrom(_,_,_,_)
\* the list comprehension [d for d in dict_list if condition(d)], from item i
\* on with acc the items kept so far; a raising condition ends it
filterFrom(condition, dict_list_, i, acc) ==
    IF i > Len(dict_list_) THEN Ok(acc)
    ELSE LET r == Call(condition, dict_list_[i])
         IN  IF ~r.ok THEN r
             ELSE filterFrom(condition, dict_list_, i + 1,
                             IF r.v THEN Append(acc, dict_list_[i]) ELSE acc)

RECURSIVE filterPrepending(_,_)
\* filter building its result back to front
filterPrepending(condition, dict_list_) ==
    IF dict_list_ = <<>> THEN Ok(<<>>)
    ELSE LET r == Call(condition, Head(dict_list_))
             rest == filterPrepending(condition, Tail(dict_list_))
         IN  IF ~r.ok THEN r
             ELSE IF ~rest.ok THEN rest
             ELSE Ok(IF r.v THEN Append(rest.v, Head(dict_list_)) ELSE rest.v)

RECURSIVE filterSwallowing(_,_)
\* filter treating a raising condition as False
filterSwallowing(condition, dict_list_) ==
    IF dict_list_ = <<>> THEN Ok(<<>>)
    ELSE LET r == Call(condition, Head(dict_list_))
             rest == filterSwallowing(condition, Tail(dict_list_))
         IN  Ok(IF r.ok /\ r.v THEN <<Head(dict_list_)>> \o rest.v ELSE rest.v)

filter(condition, dict_list_) == filterFrom(condition, dict_list_, 1, <<>>)

\* vals surviving from one call to the next (a list shared between calls)
StaleVals(old) == old

\* vals: List[Any] = []   (whatever an earlier call left behind is discarded)
FreshVals(old) == <<>>

Truthy(v) == v \notin {PyStr(<<>>), PyNone, PyInt(0)}

RECURSIVE ExtractTruthy(_,_,_,_)
\* extraction testing the value, d.get(aggregation_key), instead of the key
ExtractTruthy(acc, aggregation_key, dict_list_, i) ==
    IF i > Len(dict_list_) THEN acc
    ELSE ExtractTruthy(IF /\ aggregation_key \in DOMAIN dict_list_[i]
                          /\ Truthy(dict_list_[i][aggregation_key])
                       THEN Append(acc, dict_list_[i][aggregation_key])
                       ELSE acc,
                       aggregation_key, dict_list_, i + 1)

RECURSIVE ExtractInto(_,_,_,_)
\* for d in dict_list: if aggregation_key in d: vals.append(d[aggregation_key])
ExtractInto(acc, aggregation_key, dict_list_, i) ==
    IF i > Len(dict_list_) THEN acc
    ELSE ExtractInto(IF aggregation_key \in DOMAIN dict_list_[i]
                     THEN Append(acc, dict_list_[i][aggregation_key])
                     ELSE acc,
                     aggregation_key, dict_list_, i + 1)

\* the list vals at the return statement, old being what vals held before
ValsOf(old, aggregation_key, dict_list_) ==
    ExtractInto(FreshVals(old), aggregation_key, dict_list_, 1)

aggregate(aggregation_key, aggregation_function, dict_list_) ==
    Apply(aggregation_function, ValsOf(<<>>, aggregation_key, dict_list_))

-----------------------------------------------------------------------------
(* _load_cities *)

\* csv_path_candidates, in probing order
Candidates == <<"./Cities.csv", "Cities.csv", "/content/Cities.csv", "/mnt/data/Cities.csv">>

\* the file a candidate path names: "./Cities.csv" and "Cities.csv" are the
\* same file of the working directory
Resolve(p) == IF p = "./Cities.csv" THEN "Cities.csv" ELSE p

Files == {Resolve(Candidates[i]) : i \in 1..Len(Candidates)}

\* os.path.exists(p)
PathExists(p) == Resolve(p) \in fs

RECURSIVE FindPathFrom(_,_)
\* for p in csv_path_candidates: if os.path.exists(p): file_path = p; break
\* ("" stands for file_path = None)
FindPathFrom(candidates, i) ==
    IF i > Len(candidates) THEN ""
    ELSE IF PathExists(candidates[i]) THEN candidates[i]
    ELSE FindPathFrom(candidates, i + 1)

\* the probing loop without its break: the last existing candidate wins
FindPathLast(candidates) ==
    LET ex == {i \in 1..Len(candidates) : PathExists(candidates[i])}
    IN  IF ex = {} THEN ""
        ELSE candidates[CHOOSE i \in ex : \A j \in ex : j <= i]

FindPath(candidates) == FindPathFrom(candidates, 1)

\* k.strip().lower()
NormKey(k) == lower(strip(k))

\* one row of csv.DictReader after the normalising dict comprehension: a
\* short row has None (restval) under the columns it lacks; of two columns
\* with the same normalised name the later one wins
NormRow(header, row) ==
    LET keys == [i \in 1..Len(header) |-> NormKey(header[i])]
    IN  [key \in {keys[i] : i \in 1..Len(header)} |->
            LET at == {i \in 1..Len(header) : keys[i] = key}
                i  == CHOOSE a \in at : \A b \in at : b <= a
            IN  IF i <= Len(row) THEN PyStr(strip(row[i])) ELSE PyNone]

RECURSIVE ReadRows(_,_)
\* for r in rows: cities.append(norm)
ReadRows(header, rows) ==
    IF rows = <<>> THEN <<>>
    ELSE <<NormRow(header, Head(rows))>> \o ReadRows(header, Tail(rows))

\* _load_cities(): [file_path, whether the warning was printed, cities]
load_cities ==
    LET file_path == FindPath(Candidates)
    IN  IF file_path = ""
        THEN [file_path |-> file_path, warned |-> TRUE, cities |-> <<>>]
        ELSE [file_path |-> file_path, warned |-> FALSE,
              cities |-> ReadRows(csvHeader, csvRows)]

-----------------------------------------------------------------------------
(* The files the model reads *)

Headers ==
    { << <<"c","o","u","n","t","r","y">>, <<"t","e","m","p","e","r","a","t","u","r","e">> >>,
      << <<"T","e","m","p","e","r","a","t","u","r","e"," ">>, <<" ","C","o","u","n","t","r","y">> >> }

CountryTexts ==
    { <<"G","e","r","m","a","n","y">>, <<" ","s","p","a","i","n"," ">>,
      <<"S","p","a","i","n">>, <<" ">> }

TemperatureTexts == { <<"1","5">>, <<"1","2">>, <<"8">>, <<"a","b","c">> }

CellTexts(column) ==
    IF NormKey(column) = KCountry THEN CountryTexts ELSE TemperatureTexts

\* data rows under a header: at least one cell (the reader skips empty rows),
\* at most one cell per column
RowsOf(header) ==
    UNION { { r \in [1..n -> CountryTexts \cup TemperatureTexts] :
                \A i \in 1..n : r[i] \in CellTexts(header[i]) } :
            n \in 1..Len(header) }

SeqsUpTo(S, n) == UNION { [1..m -> S] : m \in 0..n }

-----------------------------------------------------------------------------
(* main *)

NoFloat == [k |-> "unset", n |-> 0, d |-> 1]

RECURSIVE PrintAll(_)
\* for c in ...: print(c)
PrintAll(cs) ==
    IF cs = <<>> THEN <<>>
    ELSE <<[tag |-> "city", v |-> Head(cs)]>> \o PrintAll(Tail(cs))

OpsIdle ==
    /\ dict_list = <<>>
    /\ dataset0 = <<>>
    /\ vals = <<>>
    /\ call = [op |-> "none"]
    /\ result = Ok(<<>>)
    /\ firstCall = [call |-> [op |-> "none"], result |-> Ok(<<>>), again |-> FALSE]

Init ==
    /\ fs \in SUBSET Files
    /\ csvHeader \in Headers
    /\ csvRows \in SeqsUpTo(RowsOf(csvHeader),
                            IF fs = {} THEN 0      \* no file, no rows
                            ELSE IF fs = {"Cities.csv"} THEN MaxRows
                            ELSE MaxRowsElsewhere)
    /\ pc = "load"
    /\ cities = <<>>
    /\ opened = ""
    /\ out = <<>>
    /\ avg_temp = NoFloat
    /\ cities_in_germany = <<>>
    /\ spain_above_12 = <<>>
    /\ unique_country_count = -1
    /\ OpsIdle

\* main without "if not cities: return"
LoadAlwaysContinue ==
    /\ pc = "load"
    /\ LET l == load_cities
       IN  /\ opened' = l.file_path
           /\ out' = IF l.warned THEN <<[tag |-> "warning"]>> ELSE <<>>
           /\ cities' = l.cities
           /\ pc' = "avg"
    /\ UNCHANGED <<fs, csvHeader, csvRows, avg_temp, cities_in_germany,
                   spain_above_12, unique_country_count>>
    /\ UNCHANGED opsVars

\* cities = _load_cities(); if not cities: return
Load ==
    /\ pc = "load"
    /\ LET l == load_cities
       IN  /\ opened' = l.file_path
           /\ out' = IF l.warned THEN <<[tag |-> "warning"]>> ELSE <<>>
           /\ cities' = l.cities
           /\ pc' = IF l.cities = <<>> THEN "done" ELSE "avg"
    /\ UNCHANGED <<fs, csvHeader, csvRows, avg_temp, cities_in_germany,
                   spain_above_12, unique_country_count>>
    /\ UNCHANGED opsVars

\* 1) Average temperature of all the cities
AverageTemperature ==
    /\ pc = "avg"
    /\ avg_temp' = aggregate(KTemperature, "avg", cities).v
    /\ out' = Append(out, [tag |-> "avg", v |-> avg_temp'])
    /\ pc' = "germany"
    /\ UNCHANGED <<fs, csvHeader, csvRows, cities, opened, cities_in_germany,
                   spain_above_12, unique_country_count>>
    /\ UNCHANGED opsVars

\* 2) All cities in Germany
CitiesInGermany ==
    /\ pc = "germany"
    /\ cities_in_germany' = filter([kind |-> "germany"], cities).v
    /\ out' = out \o <<[tag |-> "germany"]>> \o PrintAll(cities_in_germany')
    /\ pc' = "spain"
    /\ UNCHANGED <<fs, csvHeader, csvRows, cities, opened, avg_temp,
                   spain_above_12, unique_country_count>>
    /\ UNCHANGED opsVars

\* 3) All cities in Spain with temperature > 12
SpainAbove12 ==
    /\ pc = "spain"
    /\ spain_above_12' = filter([kind |-> "spain"], cities).v
    /\ out' = out \o <<[tag |-> "spain"]>> \o PrintAll(spain_above_12')
    /\ pc' = "unique"
    /\ UNCHANGED <<fs, csvHeader, csvRows, cities, opened, avg_temp,
                   cities_in_germany, unique_country_count>>
    /\ UNCHANGED opsVars

\* 4) Count the number of unique countries
UniqueCountries ==
    /\ pc = "unique"
    /\ unique_country_count' = aggregate(KCountry, "unique", cities).v
    /\ out' = Append(out, [tag |-> "count", v |-> unique_country_count'])
    /\ pc' = "done"
    /\ UNCHANGED <<fs, csvHeader, csvRows, cities, opened, avg_temp,
                   cities_in_germany, spain_above_12>>
    /\ UNCHANGED opsVars

Next ==
    \/ Load
    \/ AverageTemperature
    \/ CitiesInGermany
    \/ SpainAbove12
    \/ UniqueCountries

Spec == Init /\ [][Next]_vars

-----------------------------------------------------------------------------
(* filter and aggregate called by an arbitrary caller on its own Dataset *)

\* Records with a sparse schema and falsy values (empty text, zero, None)
OpRecords ==
    UNION { { d \in [ks -> {PyStr(<<>>), PyStr(<<"x">>), PyNone, PyInt(0)}] :
                /\ KCountry \in ks => d[KCountry] \in {PyStr(<<>>), PyStr(<<"x">>)}
                /\ KTemperature \in ks => d[KTemperature] \in {PyNone, PyInt(0)} } :
            ks \in SUBSET {KCountry, KTemperature} }

\* conditions a caller passes: constant ones, lambda d: d.get(key) == val,
\* and lambda d: d[key] == val, which raises KeyError on a Record without key
Conditions ==
    { [kind |-> "const", b |-> TRUE],
      [kind |-> "const", b |-> FALSE],
      [kind |-> "get_eq", key |-> KCountry, val |-> PyStr(<<"x">>)],
      [kind |-> "index_eq", key |-> KTemperature, val |-> PyInt(0)] }

\* aggregation functions a caller passes: list, len, and lambda xs: xs[0],
\* which raises IndexError on an empty list
Folds == {"collect", "count", "first"}

Keys == {KCountry, KTemperature}

DemoIdle ==
    /\ fs = {}
    /\ csvHeader = <<>>
    /\ csvRows = <<>>
    /\ pc = "ops"
    /\ cities = <<>>
    /\ opened = ""
    /\ out = <<>>
    /\ avg_temp = NoFloat
    /\ cities_in_germany = <<>>
    /\ spain_above_12 = <<>>
    /\ unique_country_count = -1

InitOps ==
    /\ DemoIdle
    /\ dict_list \in SeqsUpTo(OpRecords, MaxRows)
    /\ dataset0 = dict_list
    /\ vals = <<>>
    /\ call = [op |-> "none"]
    /\ result = Ok(<<>>)
    /\ firstCall = [call |-> [op |-> "none"], result |-> Ok(<<>>), again |-> FALSE]

\* history: the first call with its outcome, and whether a call followed it
Remember(c, r) ==
    IF firstCall.call.op = "none"
    THEN [call |-> c, result |-> r, again |-> FALSE]
    ELSE [firstCall EXCEPT !.again = TRUE]

\* filter(condition, dict_list)
CallFilter(condition) ==
    /\ call' = [op |-> "filter", condition |-> condition]
    /\ result' = filter(condition, dict_list)
    /\ firstCall' = Remember(call', result')
    /\ UNCHANGED <<dict_list, dataset0, vals>>
    /\ UNCHANGED demoVars

\* aggregate(aggregation_key, aggregation_function, dict_list)
CallAggregate(aggregation_key, aggregation_function) ==
    /\ call' = [op |-> "aggregate", key |-> aggregation_key, fn |-> aggregation_function]
    /\ vals' = ValsOf(vals, aggregation_key, dict_list)
    /\ result' = Apply(aggregation_function, vals')
    /\ firstCall' = Remember(call', result')
    /\ UNCHANGED <<dict_list, dataset0>>
    /\ UNCHANGED demoVars

NextOps ==
    \/ \E condition \in Conditions : CallFilter(condition)
    \/ \E aggregation_key \in Keys, aggregation_function \in Folds :
          CallAggregate(aggregation_key, aggregation_function)

SpecOps == InitOps /\ [][NextOps]_vars

-----------------------------------------------------------------------------
(* Properties of filter and aggregate, checked under SpecOps *)

\* the j-th smallest element of a set of indices
Nth(S, j) == CHOOSE i \in S : Cardinality({k \in S : k < i}) = j - 1

\* the indices of the Records on which the condition returns True
Satisfying(condition, D) ==
    {i \in 1..Len(D) : Call(condition, D[i]) = Ok(TRUE)}

\* the indices of the Records on which the condition raises
Failing(condition, D) ==
    {i \in 1..Len(D) : ~Call(condition, D[i]).ok}

\* the indices of the Records holding key
Having(key, D) == {i \in 1..Len(D) : key \in DOMAIN D[i]}

\* the values under key of the Records holding it, in Dataset order
ValuesUnder(key, D) ==
    [j \in 1..Cardinality(Having(key, D)) |-> D[Nth(Having(key, D), j)][key]]

\* C1: filter(P, D) holds exactly the Records of D on which P is true, in
\* their original order, none duplicated and none omitted: it is no longer
\* than D, filter(always-true, D) = D and filter(always-false, D) is empty.
C1_FilterExact ==
    (call.op = "filter" /\ Failing(call.condition, dict_list) = {}) =>
        LET S == Satisfying(call.condition, dict_list)
        IN  /\ result.ok
            /\ Len(result.v) = Cardinality(S)
            /\ Len(result.v) <= Len(dict_list)
            /\ \A j \in 1..Len(result.v) : result.v[j] = dict_list[Nth(S, j)]
            /\ call.condition = [kind |-> "const", b |-> TRUE] => result.v = dict_list
            /\ call.condition = [kind |-> "const", b |-> FALSE] => result.v = <<>>

\* a filter call that kept two different Records and one that dropped the
\* first Record and kept the second
C1_Witness ==
    /\ call.op = "filter"
    /\ call.condition.kind = "get_eq"
    /\ firstCall.call.op = "filter"
    /\ firstCall.call.condition.kind = "index_eq"
    /\ Len(dict_list) = 2
    /\ dict_list[1] # dict_list[2]
    /\ result = Ok(<<dict_list[2]>>)
    /\ firstCall.result = Ok(dict_list)

\* C2: aggregate(K, F, D) applies F to exactly the values stored under K in
\* the Records that hold the key K, in Dataset order; Records without K are
\* skipped, a falsy value under a present key is included, and
\* aggregate(K, count, D) is the number of Records holding K.
C2_AggregateExact ==
    call.op = "aggregate" =>
        /\ vals = ValuesUnder(call.key, dict_list)
        /\ result = Apply(call.fn, ValuesUnder(call.key, dict_list))
        /\ call.fn = "collect" => result = Ok(ValuesUnder(call.key, dict_list))
        /\ call.fn = "count" =>
              result = Ok(Cardinality(Having(call.key, dict_list)))

\* a count over a Dataset with one Record lacking the key and one Record
\* holding a falsy value under it
C2_Witness ==
    /\ call.op = "aggregate"
    /\ call.fn = "count"
    /\ Len(dict_list) = 2
    /\ call.key \notin DOMAIN dict_list[1]
    /\ call.key \in DOMAIN dict_list[2]
    /\ ~Truthy(dict_list[2][call.key])
    /\ result = Ok(1)

\* C9: a failure of the condition reaches filter's caller unchanged and in
\* place of any result; a failure of the aggregation function reaches
\* aggregate's caller unchanged; and neither operation fails when the
\* condition / aggregation function succeeds on every input.
C9_FailuresPropagate ==
    /\ call.op = "filter" =>
          LET F == Failing(call.condition, dict_list)
          IN  /\ result.ok <=> F = {}
              /\ F # {} =>
                    /\ result = Call(call.condition, dict_list[Nth(F, 1)])
                    /\ DOMAIN result = {"ok", "exc"}
    /\ call.op = "aggregate" =>
          LET r == Apply(call.fn, ValuesUnder(call.key, dict_list))
          IN  /\ result.ok <=> r.ok
              /\ ~r.ok => result = r /\ DOMAIN result = {"ok", "exc"}

\* a filter whose condition held on the first Record and raised on the second
C9_Witness ==
    /\ call.op = "filter"
    /\ Len(dict_list) = 2
    /\ Call(call.condition, dict_list[1]) = Ok(TRUE)
    /\ ~Call(call.condition, dict_list[2]).ok
    /\ result = Raise("KeyError", KTemperature)

\* C10: after any sequence of filter and aggregate calls the Dataset is as
\* it was handed over, and a call repeating the inputs of the first call
\* made returns what the first call returned.
C10_NoHiddenState ==
    /\ dict_list = dataset0
    /\ call = firstCall.call => result = firstCall.result

\* the first call, an aggregate over a non-empty extraction, made again
\* after other calls
C10_Witness ==
    /\ firstCall.again
    /\ call = firstCall.call
    /\ call.op = "aggregate"
    /\ vals # <<>>
    /\ dict_list = dataset0
    /\ Len(dict_list) = 2

-----------------------------------------------------------------------------
(* Properties of the demo, checked under Spec *)

\* the Record has a text under country that, trimmed and lowercased, is name
CountryIs(d, name) ==
    /\ KCountry \in DOMAIN d
    /\ d[KCountry].t = "str"
    /\ lower(strip(d[KCountry].s)) = name

\* the Record has a text under temperature that parses as a number
NumericTemperature(d) ==
    /\ KTemperature \in DOMAIN d
    /\ d[KTemperature].t = "str"
    /\ ParseFloat(d[KTemperature].s).ok

TemperatureOf(d) == ParseFloat(d[KTemperature].s).v

InSpainAbove12(d) ==
    /\ CountryIs(d, TSpain)
    /\ NumericTemperature(d)
    /\ TemperatureOf(d).n > 12 * TemperatureOf(d).d

InGermany(d) == CountryIs(d, TGermany)

RECURSIVE SumOfNumeric(_)
SumOfNumeric(D) ==
    IF D = <<>> THEN Fin(0, 1)
    ELSE IF NumericTemperature(Head(D))
         THEN FAdd(TemperatureOf(Head(D)), SumOfNumeric(Tail(D)))
         ELSE SumOfNumeric(Tail(D))

NumericCount(D) == Cardinality({i \in 1..Len(D) : NumericTemperature(D[i])})

\* main has printed this query's result
Printed(tag) == \E i \in 1..Len(out) : out[i].tag = tag

\* C3: for a Dataset with at least one numeric temperature, the average is
\* the sum of the numeric temperatures divided by their number, however
\* many non-numeric or missing temperatures there are.
C3_AverageOverNumeric ==
    (Printed("avg") /\ NumericCount(cities) > 0) =>
        avg_temp = FDiv(SumOfNumeric(cities), Fin(NumericCount(cities), 1))

\* C4: with no candidate path existing the program prints the warning and
\* ends with no query computed and no result printed; otherwise the file
\* read is the first existing candidate in list order.
C4_MissingFileAndFirstCandidate ==
    /\ (pc # "load" /\ fs = {}) =>
          /\ pc = "done"
          /\ opened = ""
          /\ out = <<[tag |-> "warning"]>>
          /\ avg_temp = NoFloat
          /\ cities_in_germany = <<>>
          /\ spain_above_12 = <<>>
          /\ unique_country_count = -1
    /\ (pc # "load" /\ fs # {}) =>
          \E i \in 1..Len(Candidates) :
              /\ opened = Candidates[i]
              /\ PathExists(Candidates[i])
              /\ \A j \in 1..(i - 1) : ~PathExists(Candidates[j])
              /\ ~Printed("warning")

\* the program has ended after finding no file
C4_Witness ==
    /\ pc = "done"
    /\ fs = {}
    /\ out = <<[tag |-> "warning"]>>

\* C5 as stated: for an empty Dataset read from an existing file the demo
\* produces NaN as the average, empty Germany and Spain lists and a unique
\* country count of 0.
C5_EmptyDatasetResults ==
    (pc = "done" /\ opened # "" /\ cities = <<>>) =>
        /\ Printed("avg") /\ avg_temp = NaN
        /\ Printed("germany") /\ cities_in_germany = <<>>
        /\ Printed("spain") /\ spain_above_12 = <<>>
        /\ Printed("count") /\ unique_country_count = 0

\* C5 amended: for an empty Dataset read from an existing file the demo ends
\* right after loading, with none of the four results computed or printed;
\* the four queries themselves, applied to the empty Dataset, yield NaN, an
\* empty Germany list, an empty Spain list and a unique country count of 0.
C5_EmptyDatasetEndsEarly ==
    (pc # "load" /\ opened # "" /\ cities = <<>>) =>
        /\ pc = "done"
        /\ out = <<>>
        /\ avg_temp = NoFloat
        /\ unique_country_count = -1
        /\ aggregate(KTemperature, "avg", cities) = Ok(NaN)
        /\ filter([kind |-> "germany"], cities) = Ok(<<>>)
        /\ filter([kind |-> "spain"], cities) = Ok(<<>>)
        /\ aggregate(KCountry, "unique", cities) = Ok(0)

\* a file was found and held no data rows
C5_Witness ==
    /\ pc = "done"
    /\ opened # ""
    /\ csvRows = <<>>
    /\ cities = <<>>

\* C6: the unique-country count is the number of distinct country texts
\* after trimming and lowercasing; an absent key, an empty or whitespace-only
\* text and a None under a present key contribute nothing.
C6_UniqueCountryCount ==
    Printed("count") =>
        unique_country_count =
            Cardinality({ lower(strip(cities[i][KCountry].s)) :
                            i \in { j \in 1..Len(cities) :
                                      /\ KCountry \in DOMAIN cities[j]
                                      /\ cities[j][KCountry].t = "str"
                                      /\ strip(cities[j][KCountry].s) # <<>> } })

\* C7: the Spain query returns exactly the Records whose country normalises
\* to "spain" and whose temperature parses as a number above 12; a missing,
\* None or non-numeric temperature, and a temperature of exactly 12, exclude
\* the Record, and the query never fails.
C7_SpainAbove12 ==
    Printed("spain") =>
        /\ spain_above_12 = SelectSeq(cities, InSpainAbove12)
        /\ filter([kind |-> "spain"], cities).ok
        /\ \A i \in 1..Len(spain_above_12) :
              /\ NumericTemperature(spain_above_12[i])
              /\ TemperatureOf(spain_above_12[i]) # Fin(12, 1)

\* a Spanish Record at 15 degrees is returned, one at exactly 12 is not
C7_Witness ==
    /\ pc = "done"
    /\ Len(cities) = 2
    /\ CountryIs(cities[1], TSpain) /\ CountryIs(cities[2], TSpain)
    /\ cities[1][KTemperature] = PyStr(<<"1","2">>)
    /\ cities[2][KTemperature] = PyStr(<<"1","5">>)
    /\ spain_above_12 = <<cities[2]>>

\* C8: the Germany query returns, in Dataset order, exactly the Records
\* whose country, trimmed and lowercased, is "germany", whatever their
\* temperature; a Record without a country is left out and nothing fails.
C8_CitiesInGermany ==
    Printed("germany") =>
        /\ cities_in_germany = SelectSeq(cities, InGermany)
        /\ filter([kind |-> "germany"], cities).ok

\* two German Records, one with a None and one with a non-numeric
\* temperature, are both returned
C8_Witness ==
    /\ pc = "done"
    /\ Len(cities) = 2
    /\ cities[1][KTemperature] = PyNone
    /\ cities[2][KTemperature] = PyStr(<<"a","b","c">>)
    /\ cities[1][KCountry] = PyStr(<<"G","e","r","m","a","n","y">>)
    /\ cities_in_germany = cities

====
